---- MODULE Spec2Model ----
(***************************************************************************)
(* The flag intake, rate-limited batch submission and result accounting   *)
(* pipeline of CTFSubmitter (src/code/niggas.py).                          *)
(*                                                                         *)
(* Strings are sequences of one-character strings, so that the regular    *)
(* expression, str.strip, slicing and int(s, 36) are computed character   *)
(* by character.  Time is the wall clock in whole seconds.                 *)
(***************************************************************************)
EXTENDS Integers, Sequences, FiniteSets, TLC

VARIABLES
    flag_queue,          \* self.flag_queue: the FIFO of accepted flags
    lock,                \* self.lock: "free" or the name of its holder
    last_submission,     \* self.last_submission
    submission_history,  \* self.submission_history
    flags_by_team,       \* self.flags_by_team  (defaultdict(int), str keys)
    flags_by_service,    \* self.flags_by_service
    stats_file,          \* the content of submission_stats.json
    pc,                  \* the submitter thread's position
    wake,                \* end of the pending time.sleep
    batch,               \* local batch of submitter_thread
    results,             \* local results of submitter_thread (a JSON value)
    idx,                 \* the index i of enumerate(results)
    now,                 \* the wall clock, time.time()
    outcome,             \* how the last outbound call ended
    starts,              \* history variable: start times of the last two dispatch attempts
    accepted,            \* history variable: every flag put in the queue, in order
    produced,            \* history variable: number of flags the producers got accepted
    sent,                \* history variable: every flag handed to submit_flags, in order
    mark,                \* history variable: history length and counters at lock acquisition
    rate_limit,          \* self.rate_limit
    reader,              \* the summary read that holds the lock, or "none"
    cli                  \* the position of start_cli in the main thread

vars == <<flag_queue, lock, last_submission, submission_history, flags_by_team,
          flags_by_service, stats_file, pc, wake, batch, results, idx, now,
          outcome, starts, accepted, produced, sent, mark, rate_limit, reader,
          cli>>

\* the statistics the lock guards
stats == <<submission_history, flags_by_team, flags_by_service>>

\* the history variables the submitter thread alone writes
trail == <<outcome, starts, sent, mark>>

\* what neither the producers nor the submitter thread write
aside == <<rate_limit, reader, cli>>

(***************************************************************************)
(* Bounds of the model.                                                    *)
(***************************************************************************)
StartTime == 2      \* clock reading at construction (last_submission = 0 is long ago)
MaxTime == 4        \* the clock is observed up to this reading
MaxAccepted == 2    \* flags the producers get accepted within one run
MaxExtra == 1       \* surplus / missing results the remote may answer with

(***************************************************************************)
(* Program constants.                                                      *)
(***************************************************************************)
MinInterval == 2    \* 2.0 seconds between requests
BatchLimit == 100   \* flags per request
HistoryKeep == 1000 \* history entries written to the snapshot
FlagBodyLen == 31   \* {31} of FLAG_REGEX
DefaultRateLimit == 30  \* self.rate_limit, requests per minute

Range(s) == {s[i] : i \in 1..Len(s)}

Min(a, b) == IF a < b THEN a ELSE b

Max(a, b) == IF a < b THEN b ELSE a

(***************************************************************************)
(* Characters.                                                             *)
(***************************************************************************)
DigitChars == <<"0", "1", "2", "3", "4", "5", "6", "7", "8", "9">>

UpperChars == <<"A", "B", "C", "D", "E", "F", "G", "H", "I", "J", "K", "L", "M",
                "N", "O", "P", "Q", "R", "S", "T", "U", "V", "W", "X", "Y", "Z">>

LowerChars == <<"a", "b", "c", "d", "e", "f", "g", "h", "i", "j", "k", "l", "m",
                "n", "o", "p", "q", "r", "s", "t", "u", "v", "w", "x", "y", "z">>

Whitespace == {" ", "\t", "\n", "\r"}

IndexOf(c, s) == CHOOSE i \in 1..Len(s) : s[i] = c

\* [A-Z0-9]
UpperAlnum == Range(UpperChars) \cup Range(DigitChars)

IsUpperAlnum(c) == c \in UpperAlnum

\* a digit of int(., 36): 0-9, and the letters in either case
Base36Digits == Range(DigitChars) \cup Range(UpperChars) \cup Range(LowerChars)

IsBase36Digit(c) == c \in Base36Digits

DigitValue(c) ==
    IF c \in Range(DigitChars) THEN IndexOf(c, DigitChars) - 1
    ELSE IF c \in Range(UpperChars) THEN 9 + IndexOf(c, UpperChars)
    ELSE 9 + IndexOf(c, LowerChars)

(***************************************************************************)
(* Python string primitives.                                               *)
(***************************************************************************)
\* s[a:b] with 0 <= a <= b: clipped to the string, never an error
Slice(s, a, b) == SubSeq(s, a + 1, Min(b, Len(s)))

RECURSIVE LStrip(_)
LStrip(s) == IF s # <<>> /\ Head(s) \in Whitespace THEN LStrip(Tail(s)) ELSE s

RECURSIVE RStrip(_)
RStrip(s) ==
    IF s # <<>> /\ s[Len(s)] \in Whitespace THEN RStrip(SubSeq(s, 1, Len(s) - 1)) ELSE s

\* str.strip()
Strip(s) == RStrip(LStrip(s))

\* s[:n], the oldest entries instead of the newest
LastN_Oldest(s, n) == SubSeq(s, 1, Min(n, Len(s)))

\* s[-n:]
LastN(s, n) == SubSeq(s, Max(1, Len(s) - n + 1), Len(s))

RECURSIVE DigitsValue(_, _)
DigitsValue(s, acc) ==
    IF s = <<>> THEN acc ELSE DigitsValue(Tail(s), 36 * acc + DigitValue(Head(s)))

\* int(s, 36) on a string of at most two characters: surrounding whitespace is
\* dropped, one sign is allowed, the rest must be digits (an underscore needs
\* a digit on both sides, which two characters cannot hold); ok = FALSE is
\* ValueError
ParseInt36(s) ==
    LET t == Strip(s)
        signed == t # <<>> /\ Head(t) \in {"+", "-"}
        d == IF signed THEN Tail(t) ELSE t
    IN  IF d # <<>> /\ \A i \in 1..Len(d) : IsBase36Digit(d[i])
        THEN [ok |-> TRUE,
              val |-> IF signed /\ Head(t) = "-" THEN 0 - DigitsValue(d, 0)
                      ELSE DigitsValue(d, 0)]
        ELSE [ok |-> FALSE, val |-> 0]

(***************************************************************************)
(* FlagCodec.                                                              *)
(***************************************************************************)
\* self.FLAG_REGEX.match(flag) for ^[A-Z0-9]{31}=$ : in Python "$" matches at
\* the end of the string and also just before a newline that ends the string
FLAG_REGEX_match(flag) ==
    /\ Len(flag) > FlagBodyLen
    /\ \A i \in 1..FlagBodyLen : IsUpperAlnum(flag[i])
    /\ flag[FlagBodyLen + 1] = "="
    /\ \/ Len(flag) = FlagBodyLen + 1
       \/ Len(flag) = FlagBodyLen + 2 /\ flag[FlagBodyLen + 2] = "\n"

None == [ok |-> FALSE]

decode_flag(flag) ==
    LET r == ParseInt36(Slice(flag, 0, 2))
        t == ParseInt36(Slice(flag, 2, 4))
        s == ParseInt36(Slice(flag, 4, 6))
    IN  IF r.ok /\ t.ok /\ s.ok
        THEN [ok |-> TRUE, round |-> r.val, team |-> t.val, service |-> s.val,
              full_flag |-> flag]
        ELSE None

\* validate_flag: the pair (valid, msg)
validate_flag(flag) ==
    IF ~FLAG_REGEX_match(flag) THEN [valid |-> FALSE, msg |-> "Invalid format"]
    ELSE IF ~decode_flag(flag).ok THEN [valid |-> FALSE, msg |-> "Decoding failed"]
    ELSE [valid |-> TRUE, msg |-> "Valid"]

(***************************************************************************)
(* The strings presented at the intake.                                    *)
(***************************************************************************)
Repeat(c, n) == [i \in 1..n |-> c]

\* a well-formed flag with the given six-character prefix
MkFlag(prefix) == prefix \o Repeat("X", FlagBodyLen - 6) \o <<"=">>

FlagA == MkFlag(<<"0", "1", "0", "A", "1", "A">>)   \* round 1, team 10, service 46

FlagB == MkFlag(<<"0", "2", "0", "B", "0", "3">>)   \* round 2, team 11, service 3

TeamOfB == "11"

ServiceOfB == "3"

Inputs ==
    { FlagA,
      <<" ">> \o FlagB \o <<" ">>,                     \* a flag between blanks
      FlagA \o <<"\n">>,                               \* a flag and a line feed
      MkFlag(<<"0", "1", "0", "a", "1", "A">>),        \* a lower-case letter
      Repeat("X", FlagBodyLen + 1),                    \* no "=" at the end
      SubSeq(FlagA, 2, Len(FlagA)) }                   \* one character short

\* the strings validate_flag is called with, and its verdict on each
Validated == [s \in Inputs \cup {Strip(x) : x \in Inputs} |-> validate_flag(s)]

\* .strip() of each string presented
Stripped == [s \in Inputs |-> Strip(s)]

\* decode_flag on each string the reconciliation decodes: a flag of the
\* batch, or "unknown"
Decoded ==
    [s \in DOMAIN Validated \cup {<<"u", "n", "k", "n", "o", "w", "n">>} |-> decode_flag(s)]

\* request.get_json(): has = FALSE is a body without the key 'flag'
ApiBodies == {[has |-> FALSE, flag |-> <<>>]} \cup {[has |-> TRUE, flag |-> s] : s \in Inputs}

(***************************************************************************)
(* Counters: defaultdict(int) keyed by str(id).                            *)
(***************************************************************************)
EmptyCounter == [k \in {} |-> 0]

Get(c, k) == IF k \in DOMAIN c THEN c[k] ELSE 0

\* c[k] += 1
Incr(c, k) == [x \in DOMAIN c \cup {k} |-> IF x = k THEN Get(c, k) + 1 ELSE c[x]]

(***************************************************************************)
(* The snapshot file.                                                      *)
(***************************************************************************)
AbsentFile == [kind |-> "absent", data |-> [x \in {} |-> 0]]

CorruptFile == [kind |-> "corrupt", data |-> [x \in {} |-> 0]]

\* what json.dump writes in save_stats
Snapshot(history, by_team, by_service) ==
    [kind |-> "json",
     data |-> [history |-> LastN(history, HistoryKeep),
               by_team |-> by_team,
               by_service |-> by_service]]

\* a file that parses to a JSON value other than an object
NonObjectFile == [kind |-> "nonobject", data |-> [x \in {} |-> 0]]

\* the keys of a JSON object whose value defaultdict(int, value) refuses
\* (a number, a string, null, a list)
BadFields(file) ==
    IF "malformed" \in DOMAIN file.data THEN file.data.malformed ELSE {}

\* an object file with the values under the keys bad replaced by such values
WithBad(file, bad) ==
    [kind |-> file.kind,
     data |-> [k \in DOMAIN file.data \cup {"malformed"} |->
                  IF k = "malformed" THEN bad ELSE file.data[k]]]

\* load_stats on an instance whose fields are cur.  A missing file, an
\* unparsable one and a value without .get leave the fields as they are;
\* lines 44-46 assign one field after the other, so an exception raised by
\* defaultdict at line 45 or 46 leaves the earlier assignments in place
load_stats(file, cur) ==
    IF file.kind = "json"
    THEN LET after44 ==
                 [cur EXCEPT !.history = IF "history" \in DOMAIN file.data
                                         THEN file.data.history ELSE <<>>]
             after45 ==
                 [after44 EXCEPT !.by_team = IF "by_team" \in DOMAIN file.data
                                             THEN file.data.by_team ELSE EmptyCounter]
             after46 ==
                 [after45 EXCEPT !.by_service = IF "by_service" \in DOMAIN file.data
                                                THEN file.data.by_service
                                                ELSE EmptyCounter]
         IN  IF "by_team" \in BadFields(file) THEN after44
             ELSE IF "by_service" \in BadFields(file) THEN after45
             ELSE after46
    ELSE cur

\* the fields __init__ sets before load_stats
FreshStats == [history |-> <<>>, by_team |-> EmptyCounter, by_service |-> EmptyCounter]

(***************************************************************************)
(* The remote endpoint's answers.                                          *)
(***************************************************************************)
\* a JSON object {status, msg} and a JSON string, as entries of the answer
Obj(d) == [isdict |-> TRUE, d |-> d]

Str(s) == [isdict |-> FALSE, d |-> [text |-> s]]

\* dict.get(key, default)
DictGet(d, key, default) == IF key \in DOMAIN d THEN d[key] ELSE default

OkEntry == Obj([status |-> "OK", msg |-> "accepted"])

DupEntry == Obj([status |-> "DUPLICATE", msg |-> "already submitted"])

BareEntry == Obj([x \in {} |-> ""])

StrEntry == Str("OK")

EntryPatterns ==
    { <<OkEntry>>, <<DupEntry, OkEntry>>, <<BareEntry>>, <<OkEntry, StrEntry>> }

Cycle(p, m) == [i \in 1..m |-> p[((i - 1) % Len(p)) + 1]]

\* a JSON value as the reconciliation loop sees it: iterable says whether
\* enumerate() accepts it, items is what iterating it yields (the elements
\* of an array, the keys of an object)
JsonArray(items) == [iterable |-> TRUE, items |-> items]

JsonObject(keys) == [iterable |-> TRUE, items |-> [i \in 1..Len(keys) |-> Str(keys[i])]]

JsonNull == [iterable |-> FALSE, items |-> <<>>]

\* the bodies a 200 answer to a batch of n flags may carry
Bodies(n) ==
    { JsonArray(Cycle(p, m)) : p \in EntryPatterns, m \in Max(0, n - MaxExtra)..(n + MaxExtra) }
    \cup { JsonNull }

\* how one requests.put ends
Outcomes(n) ==
    { [how |-> "raised", code |-> 0, text |-> "Read timed out", body |-> JsonNull],
      [how |-> "answered", code |-> 500, text |-> "HTTP 500", body |-> JsonNull],
      [how |-> "unparsable", code |-> 200, text |-> "Expecting value", body |-> JsonNull] }
    \cup { [how |-> "answered", code |-> 200, text |-> "", body |-> b] : b \in Bodies(n) }

ErrorList(flags, msg) ==
    JsonArray([i \in 1..Len(flags) |->
                   Obj([flag |-> flags[i], status |-> "ERROR", msg |-> msg])])

\* submit_flags without the test of the status code
submit_flags_AnyStatus(flags, o) ==
    IF flags = <<>> THEN JsonArray(<<>>)
    ELSE IF o.how = "answered" THEN o.body
    ELSE ErrorList(flags, o.text)

\* submit_flags(flags) when the request ends as o
submit_flags(flags, o) ==
    IF flags = <<>> THEN JsonArray(<<>>)
    ELSE IF o.how = "raised" THEN ErrorList(flags, o.text)
    ELSE IF o.code = 200
         THEN IF o.how = "unparsable" THEN ErrorList(flags, o.text) ELSE o.body
         ELSE ErrorList(flags, o.text)

(***************************************************************************)
(* Reconciliation of one result (the body of the for loop).                *)
(***************************************************************************)
Unknown == <<"u", "n", "k", "n", "o", "w", "n">>

Ellipsis == <<".", ".", ".">>

\* a loop that pairs every result with the first flag of the batch
FlagAt_First(b, i) == IF b # <<>> THEN b[1] ELSE Unknown

\* batch[i] if i < len(batch) else "unknown"
FlagAt(b, i) == IF i < Len(b) THEN b[i + 1] ELSE Unknown

\* the dict appended to submission_history (the timestamp, a formatted
\* reading of the wall clock, is left out); the ids, integers in the code,
\* are written by their decimal numerals
HistoryEntry(flag, result) ==
    LET status == DictGet(result.d, "status", "ERROR")
        msg == DictGet(result.d, "msg", "No message")
        decoded == Decoded[flag]
    IN  IF decoded.ok
        THEN [flag |-> Slice(flag, 0, 6) \o Ellipsis,
              team |-> ToString(decoded.team),
              service |-> ToString(decoded.service),
              round |-> ToString(decoded.round),
              status |-> status,
              message |-> msg]
        ELSE [flag |-> IF Len(flag) > 6 THEN Slice(flag, 0, 6) \o Ellipsis ELSE flag,
              team |-> "?",
              service |-> "?",
              round |-> "?",
              status |-> status,
              message |-> msg]

\* counting whatever the status is
Counts_AnyStatus(flag, result) == Decoded[flag].ok

\* whether this result raises a counter
Counts(flag, result) ==
    Decoded[flag].ok /\ DictGet(result.d, "status", "ERROR") = "OK"

\* counting the team under the service's key
CountTeam_ServiceKey(c, flag, result) ==
    IF Counts(flag, result) THEN Incr(c, ToString(Decoded[flag].service)) ELSE c

CountTeam(c, flag, result) ==
    IF Counts(flag, result) THEN Incr(c, ToString(Decoded[flag].team)) ELSE c

\* a loop that never counts the service
CountService_Never(c, flag, result) == c

CountService(c, flag, result) ==
    IF Counts(flag, result) THEN Incr(c, ToString(Decoded[flag].service)) ELSE c

(***************************************************************************)
(* Pacing.                                                                 *)
(***************************************************************************)
\* a worker that never sleeps
PacingDelay_NoSleep(t, last) == 0

\* the argument of time.sleep, 0 when the worker does not sleep
PacingDelay(t, last) ==
    IF t - last < MinInterval THEN MinInterval - (t - last) ELSE 0

(***************************************************************************)
(* Initial states.                                                         *)
(***************************************************************************)
\* the instance right after __init__ found file on disk, with queue already
\* filled by producers and line 23 giving rate_limit the value limit
Constructed(file, queue, limit) ==
    LET loaded == load_stats(file, FreshStats)
    IN  /\ flag_queue = queue
        /\ lock = "free"
        /\ last_submission = 0
        /\ submission_history = loaded.history
        /\ flags_by_team = loaded.by_team
        /\ flags_by_service = loaded.by_service
        /\ stats_file = file
        /\ pc = "pace"
        /\ wake = 0
        /\ batch = <<>>
        /\ results = JsonArray(<<>>)
        /\ idx = 0
        /\ now = StartTime
        /\ outcome = "none"
        /\ starts = <<>>
        /\ accepted = queue
        /\ produced = 0
        /\ sent = <<>>
        /\ mark = [len |-> Len(loaded.history), by_team |-> loaded.by_team,
                   by_service |-> loaded.by_service]
        /\ rate_limit = limit
        /\ reader = "none"
        /\ cli = "prompt"

InitWith(file, queue) == Constructed(file, queue, DefaultRateLimit)

\* the instance right after __init__, with no snapshot on disk
Init == InitWith(AbsentFile, <<>>)

(***************************************************************************)
(* The wall clock.                                                         *)
(***************************************************************************)
Tick ==
    /\ now < MaxTime
    /\ now' = now + 1
    /\ UNCHANGED aside
    /\ UNCHANGED <<flag_queue, lock, last_submission, stats, stats_file, pc, wake,
                   batch, results, idx, accepted, produced, trail>>

(***************************************************************************)
(* Intake.  A call that rejects its string changes no variable: it is a    *)
(* stuttering step, so each action below is the accepting call.            *)
(***************************************************************************)
\* with self.lock: self.flag_queue.put(flag); a producer that finds the lock
\* taken waits
Put(flag) ==
    /\ produced < MaxAccepted
    /\ lock = "free"
    /\ flag_queue' = Append(flag_queue, flag)
    /\ accepted' = Append(accepted, flag)
    /\ produced' = produced + 1
    /\ UNCHANGED aside
    /\ UNCHANGED <<lock, last_submission, stats, stats_file, pc, wake, batch,
                   results, idx, now, trail>>

\* add_flag(flag), called with any string
add_flag(flag) ==
    /\ Validated[flag].valid
    /\ Put(flag)

\* the command "submit FLAG" of start_cli: input() yields one line, which
\* holds no line feed
cli_submit(line) ==
    /\ "\n" \notin Range(line)
    /\ add_flag(Stripped[line])

\* POST /submit
http_add_flag(form) ==
    LET flag == Stripped[form]
    IN  /\ Validated[flag].valid
        /\ Put(flag)

\* POST /api/submit
api_add_flag(data) ==
    /\ data.has
    /\ LET flag == Stripped[data.flag]
       IN  /\ Validated[flag].valid
           /\ Put(flag)

(***************************************************************************)
(* The submitter thread.                                                   *)
(***************************************************************************)
\* lines 113-118: read the clock, sleep for the rest of the interval
Pace ==
    /\ pc = "pace"
    /\ LET d == PacingDelay(now, last_submission)
       IN  IF d > 0
           THEN /\ pc' = "sleep"
                /\ wake' = now + d
                /\ UNCHANGED batch
           ELSE /\ pc' = "drain"
                /\ batch' = <<>>
                /\ UNCHANGED wake
    /\ UNCHANGED aside
    /\ UNCHANGED <<flag_queue, lock, last_submission, stats, stats_file, results,
                   idx, now, accepted, produced, trail>>

\* time.sleep returns, not before the time asked for
Wake ==
    /\ pc = "sleep"
    /\ now >= wake
    /\ pc' = "drain"
    /\ batch' = <<>>
    /\ UNCHANGED aside
    /\ UNCHANGED <<flag_queue, lock, last_submission, stats, stats_file, wake,
                   results, idx, now, accepted, produced, trail>>

\* a collecting loop that takes the newest flag instead of the oldest
DrainOne_Newest ==
    /\ pc = "drain"
    /\ Len(batch) < BatchLimit
    /\ flag_queue # <<>>
    /\ batch' = Append(batch, flag_queue[Len(flag_queue)])
    /\ flag_queue' = SubSeq(flag_queue, 1, Len(flag_queue) - 1)
    /\ UNCHANGED aside
    /\ UNCHANGED <<lock, last_submission, stats, stats_file, pc, wake, results,
                   idx, now, accepted, produced, trail>>

\* lines 122-124: one turn of the collecting loop
DrainOne ==
    /\ pc = "drain"
    /\ Len(batch) < BatchLimit
    /\ flag_queue # <<>>
    /\ batch' = Append(batch, Head(flag_queue))
    /\ flag_queue' = Tail(flag_queue)
    /\ UNCHANGED aside
    /\ UNCHANGED <<lock, last_submission, stats, stats_file, pc, wake, results,
                   idx, now, accepted, produced, trail>>

\* a worker that calls submit_flags with whatever it collected, nothing included
DrainEnd_CallAlways ==
    /\ pc = "drain"
    /\ ~(Len(batch) < BatchLimit /\ flag_queue # <<>>)
    /\ pc' = "call"
    /\ starts' = LastN(Append(starts, now), 2)
    /\ sent' = sent \o batch
    /\ UNCHANGED aside
    /\ UNCHANGED <<flag_queue, lock, last_submission, stats, stats_file, wake,
                   batch, results, idx, now, accepted, produced, outcome, mark>>

\* the collecting loop ends; lines 126-127: a non-empty batch is handed to
\* submit_flags, an empty one sends the worker back to pacing
DrainEnd ==
    /\ pc = "drain"
    /\ ~(Len(batch) < BatchLimit /\ flag_queue # <<>>)
    /\ IF batch # <<>>
       THEN /\ pc' = "call"
            /\ starts' = LastN(Append(starts, now), 2)
            /\ sent' = sent \o batch
       ELSE /\ pc' = "pace"
            /\ UNCHANGED <<starts, sent>>
    /\ UNCHANGED aside
    /\ UNCHANGED <<flag_queue, lock, last_submission, stats, stats_file, wake,
                   batch, results, idx, now, accepted, produced, outcome, mark>>

\* a worker that puts the flags of a failed call back in the queue
CallReturns_Requeue ==
    /\ pc = "call"
    /\ \E o \in Outcomes(Len(batch)) :
          /\ results' = submit_flags(batch, o)
          /\ outcome' = IF o.how = "answered" /\ o.code = 200 THEN "answered" ELSE "failed"
          /\ flag_queue' = IF o.how = "answered" /\ o.code = 200 THEN flag_queue
                           ELSE flag_queue \o batch
    /\ last_submission' = now
    /\ pc' = "lock"
    /\ UNCHANGED aside
    /\ UNCHANGED <<lock, stats, stats_file, wake, batch, idx, now,
                   accepted, produced, starts, sent, mark>>

\* lines 127-128: submit_flags returns, last_submission is set
CallReturns ==
    /\ pc = "call"
    /\ \E o \in Outcomes(Len(batch)) :
          /\ results' = submit_flags(batch, o)
          /\ outcome' = IF o.how = "answered" /\ o.code = 200 THEN "answered" ELSE "failed"
    /\ last_submission' = now
    /\ pc' = "lock"
    /\ UNCHANGED aside
    /\ UNCHANGED <<flag_queue, lock, stats, stats_file, wake, batch, idx, now,
                   accepted, produced, starts, sent, mark>>

\* a worker that enters its block without waiting for the lock
Acquire_NoWait ==
    /\ pc = "lock"
    /\ lock' = "worker"
    /\ pc' = "reconcile"
    /\ idx' = 0
    /\ mark' = [len |-> Len(submission_history), by_team |-> flags_by_team,
                by_service |-> flags_by_service]
    /\ UNCHANGED aside
    /\ UNCHANGED <<flag_queue, last_submission, stats, stats_file, wake, batch,
                   results, now, accepted, produced, outcome, starts, sent>>

\* line 130: with self.lock
Acquire ==
    /\ pc = "lock"
    /\ lock = "free"
    /\ lock' = "worker"
    /\ pc' = "reconcile"
    /\ idx' = 0
    /\ mark' = [len |-> Len(submission_history), by_team |-> flags_by_team,
                by_service |-> flags_by_service]
    /\ UNCHANGED aside
    /\ UNCHANGED <<flag_queue, last_submission, stats, stats_file, wake, batch,
                   results, now, accepted, produced, outcome, starts, sent>>

\* lines 131-168: one turn of the for loop, on a result that is a dict
ReconcileOne ==
    /\ pc = "reconcile"
    /\ results.iterable
    /\ idx < Len(results.items)
    /\ results.items[idx + 1].isdict
    /\ LET result == results.items[idx + 1]
           flag == FlagAt(batch, idx)
       IN  /\ submission_history' = Append(submission_history, HistoryEntry(flag, result))
           /\ flags_by_team' = CountTeam(flags_by_team, flag, result)
           /\ flags_by_service' = CountService(flags_by_service, flag, result)
    /\ idx' = idx + 1
    /\ UNCHANGED aside
    /\ UNCHANGED <<flag_queue, lock, last_submission, stats_file, pc, wake, batch,
                   results, now, accepted, produced, trail>>

\* enumerate(results) on a value that is not iterable (TypeError), or
\* result.get on a result that is not a dict (AttributeError): nothing in
\* submitter_thread catches it, the with statement releases the lock and the
\* thread ends
Raise ==
    /\ pc = "reconcile"
    /\ \/ ~results.iterable
       \/ /\ results.iterable
          /\ idx < Len(results.items)
          /\ ~results.items[idx + 1].isdict
    /\ pc' = "dead"
    /\ lock' = "free"
    /\ UNCHANGED aside
    /\ UNCHANGED <<flag_queue, last_submission, stats, stats_file, wake, batch,
                   results, idx, now, accepted, produced, trail>>

\* a save_stats that reports success and writes nothing
save_stats_NoWrite ==
    /\ pc = "reconcile"
    /\ results.iterable
    /\ idx = Len(results.items)
    /\ pc' = "saved"
    /\ UNCHANGED aside
    /\ UNCHANGED <<flag_queue, lock, last_submission, stats, stats_file, wake, batch,
                   results, idx, now, accepted, produced, trail>>

\* line 171, save_stats: the file is replaced by the snapshot; open() may
\* fail (the file stays), and json.dump may fail after open() emptied the
\* file (an unparsable file stays); either exception is caught and printed
save_stats ==
    /\ pc = "reconcile"
    /\ results.iterable
    /\ idx = Len(results.items)
    /\ \/ /\ stats_file' = Snapshot(submission_history, flags_by_team, flags_by_service)
          /\ pc' = "saved"
       \/ /\ stats_file' \in {stats_file, CorruptFile}
          /\ pc' = "save_error"
    /\ UNCHANGED aside
    /\ UNCHANGED <<flag_queue, lock, last_submission, stats, wake, batch, results,
                   idx, now, accepted, produced, trail>>

\* a worker that keeps the lock when it goes back to pacing
Release_KeepLock ==
    /\ pc \in {"saved", "save_error"}
    /\ pc' = "pace"
    /\ UNCHANGED aside
    /\ UNCHANGED <<flag_queue, lock, last_submission, stats, stats_file, wake, batch,
                   results, idx, now, accepted, produced, trail>>

\* the with block ends: the lock is released, back to line 112
Release ==
    /\ pc \in {"saved", "save_error"}
    /\ lock' = "free"
    /\ pc' = "pace"
    /\ UNCHANGED aside
    /\ UNCHANGED <<flag_queue, last_submission, stats, stats_file, wake, batch,
                   results, idx, now, accepted, produced, trail>>

(***************************************************************************)
(* Summary reads: each takes the lock, reads the queue size, the history   *)
(* and the counters, and releases the lock.                                *)
(***************************************************************************)
\* with self.lock, entered by a summary read
EnterRead(r) ==
    /\ lock = "free"
    /\ lock' = "reader"
    /\ reader' = r
    /\ UNCHANGED <<flag_queue, last_submission, stats, stats_file, pc, wake, batch,
                   results, idx, now, accepted, produced, trail, rate_limit, cli>>

\* GET /
home ==
    /\ reader = "none"
    /\ EnterRead("home")

\* GET /api/stats
get_stats ==
    /\ reader = "none"
    /\ EnterRead("get_stats")

\* the command "status" of start_cli
cli_status ==
    /\ reader = "none"
    /\ EnterRead("status")

\* the read is done and its with block ends
LeaveRead ==
    /\ reader # "none"
    /\ lock' = "free"
    /\ reader' = "none"
    /\ UNCHANGED <<flag_queue, last_submission, stats, stats_file, pc, wake, batch,
                   results, idx, now, accepted, produced, trail, rate_limit, cli>>

Read ==
    \/ home
    \/ get_stats
    \/ cli_status
    \/ LeaveRead

Produce ==
    \/ \E s \in Inputs : add_flag(s)
    \/ \E s \in Inputs : cli_submit(s)
    \/ \E s \in Inputs : http_add_flag(s)
    \/ \E d \in ApiBodies : api_add_flag(d)

Next ==
    \/ Tick
    \/ Produce
    \/ Pace
    \/ Wake
    \/ DrainOne
    \/ DrainEnd
    \/ CallReturns
    \/ Acquire
    \/ ReconcileOne
    \/ Raise
    \/ save_stats
    \/ Release

Spec == Init /\ [][Next]_vars

(***************************************************************************)
(* The pipeline with the summary reads beside it.                          *)
(***************************************************************************)
NextRead ==
    \/ Next
    \/ Read

SpecRead == Init /\ [][NextRead]_vars

(***************************************************************************)
(* The collecting loop on its own: the worker from the top of its loop up  *)
(* to the call of submit_flags, from queues that producers filled before   *)
(* and keep filling meanwhile.                                             *)
(***************************************************************************)
Backlog(n) == [i \in 1..n |-> IF i % 2 = 1 THEN FlagA ELSE FlagB]

Backlogs == {Backlog(n) : n \in {0, 1, BatchLimit - 1, BatchLimit, BatchLimit + 1}}

InitDrain == \E queue \in Backlogs : InitWith(AbsentFile, queue)

NextDrain ==
    \/ Produce
    \/ Pace
    \/ DrainOne
    \/ DrainEnd

SpecDrain == InitDrain /\ [][NextDrain]_vars

(***************************************************************************)
(* Saving and loading on their own: the worker at the end of a             *)
(* reconciliation, on top of a history of any length and any counters,     *)
(* writes the snapshot; the process is then started anew and __init__      *)
(* loads what the file holds.                                              *)
(***************************************************************************)
OldEntry(i) ==
    [flag |-> Slice(FlagB, 0, 6) \o Ellipsis,
     team |-> TeamOfB,
     service |-> ServiceOfB,
     round |-> ToString(i),
     status |-> IF i % 2 = 0 THEN "OK" ELSE "DUPLICATE",
     message |-> "accepted"]

OldHistory(n) == [i \in 1..n |-> OldEntry(i)]

OldLengths ==
    {0, 1, HistoryKeep - 2, HistoryKeep - 1, HistoryKeep, HistoryKeep + 1}

OldCounters ==
    { EmptyCounter, (TeamOfB :> 1), (TeamOfB :> 500) @@ (ServiceOfB :> 2) }

\* the flag FlagA, answered OK, has just been reconciled on top of the
\* history h and the counters c, and the worker is about to call save_stats
AfterReconciling(h, c, file) ==
    /\ flag_queue = <<>>
    /\ lock = "worker"
    /\ last_submission = StartTime
    /\ submission_history = Append(h, HistoryEntry(FlagA, OkEntry))
    /\ flags_by_team = CountTeam(c, FlagA, OkEntry)
    /\ flags_by_service = CountService(c, FlagA, OkEntry)
    /\ stats_file = file
    /\ pc = "reconcile"
    /\ wake = 0
    /\ batch = <<FlagA>>
    /\ results = JsonArray(<<OkEntry>>)
    /\ idx = 1
    /\ now = StartTime
    /\ outcome = "answered"
    /\ starts = <<StartTime>>
    /\ accepted = <<FlagA>>
    /\ produced = 1
    /\ sent = <<FlagA>>
    /\ mark = [len |-> Len(h), by_team |-> c, by_service |-> c]
    /\ rate_limit = DefaultRateLimit
    /\ reader = "none"
    /\ cli = "prompt"

\* a snapshot an earlier run wrote, and what may be found in its place
EarlierFile == Snapshot(OldHistory(2), (TeamOfB :> 1), (ServiceOfB :> 1))

EmptyObjectFile == [kind |-> "json", data |-> [x \in {} |-> 0]]

Files ==
    { AbsentFile, CorruptFile, NonObjectFile, EmptyObjectFile, EarlierFile,
      WithBad(EarlierFile, {"by_team"}), WithBad(EarlierFile, {"by_service"}) }

InitSnapshot ==
    \E n \in OldLengths, c \in OldCounters, file \in Files :
        AfterReconciling(OldHistory(n), c, file)

\* the process ends and is started again: __init__, lines 13-36
Restart ==
    LET loaded == load_stats(stats_file, FreshStats)
    IN  /\ pc # "pace"
        /\ flag_queue' = <<>>
        /\ lock' = "free"
        /\ last_submission' = 0
        /\ submission_history' = loaded.history
        /\ flags_by_team' = loaded.by_team
        /\ flags_by_service' = loaded.by_service
        /\ pc' = "pace"
        /\ wake' = 0
        /\ batch' = <<>>
        /\ results' = JsonArray(<<>>)
        /\ idx' = 0
        /\ outcome' = "none"
        /\ starts' = <<>>
        /\ accepted' = <<>>
        /\ produced' = 0
        /\ sent' = <<>>
        /\ mark' = [len |-> Len(loaded.history), by_team |-> loaded.by_team,
                    by_service |-> loaded.by_service]
        /\ reader' = "none"
        /\ cli' = "prompt"
        /\ UNCHANGED <<stats_file, now, rate_limit>>

NextSnapshot ==
    \/ save_stats
    \/ Release
    \/ Restart

SpecSnapshot == InitSnapshot /\ [][NextSnapshot]_vars

(***************************************************************************)
(* The pipeline started on the snapshot of an earlier run, whose history   *)
(* is one entry short of what a snapshot keeps.                            *)
(***************************************************************************)
LongFile == Snapshot(OldHistory(HistoryKeep - 1), (TeamOfB :> 1), (ServiceOfB :> 1))

InitPersist == \E file \in {AbsentFile, LongFile} : InitWith(file, <<>>)

SpecPersist == InitPersist /\ [][Next]_vars

(***************************************************************************)
(* The pipeline with rate_limit configured to other budgets.               *)
(***************************************************************************)
RateLimits == {20, DefaultRateLimit, 60}

InitRate == \E limit \in RateLimits : Constructed(AbsentFile, <<>>, limit)

SpecRate == InitRate /\ [][Next]_vars

(***************************************************************************)
(* The pipeline under fair scheduling: the submitter thread takes its next *)
(* step whenever it has one (requests.put has a timeout, so the call       *)
(* returns), and the clock goes on: past the readings the model observes   *)
(* it advances for as long as the worker's sleep needs it.                 *)
(***************************************************************************)
Doze ==
    /\ pc = "sleep"
    /\ now >= MaxTime
    /\ now < wake
    /\ now' = now + 1
    /\ UNCHANGED aside
    /\ UNCHANGED <<flag_queue, lock, last_submission, stats, stats_file, pc, wake,
                   batch, results, idx, accepted, produced, trail>>

Worker ==
    \/ Pace
    \/ Wake
    \/ DrainOne
    \/ DrainEnd
    \/ CallReturns
    \/ Acquire
    \/ ReconcileOne
    \/ Raise
    \/ save_stats
    \/ Release

Clock ==
    \/ Tick
    \/ Doze

NextLive ==
    \/ Produce
    \/ Worker
    \/ Clock

SpecLive == Init /\ [][NextLive]_vars /\ WF_vars(Worker) /\ WF_vars(Clock)

(***************************************************************************)
(* The end of start_cli in the main thread.  The command exit leaves the   *)
(* loop; Ctrl-C at the prompt calls save_stats (line 422) and leaves the   *)
(* loop; after the loop save_stats is called (line 429) and the process    *)
(* ends.  These calls are made without self.lock.  A call of save_stats    *)
(* takes two steps: open(file, 'w') empties the file, then json.dump reads *)
(* the history and the counters and writes them; either may fail, and the  *)
(* exception is caught inside save_stats.                                  *)
(***************************************************************************)
SaveOpen(writing, after) ==
    /\ \/ /\ stats_file' = CorruptFile
          /\ cli' = writing
       \/ /\ stats_file' = stats_file
          /\ cli' = after
    /\ UNCHANGED <<flag_queue, lock, last_submission, stats, pc, wake, batch,
                   results, idx, now, accepted, produced, trail, rate_limit, reader>>

SaveDump(after) ==
    /\ stats_file' \in {Snapshot(submission_history, flags_by_team, flags_by_service),
                        CorruptFile}
    /\ cli' = after
    /\ UNCHANGED <<flag_queue, lock, last_submission, stats, pc, wake, batch,
                   results, idx, now, accepted, produced, trail, rate_limit, reader>>

\* the command "exit": break
cli_exit ==
    /\ cli = "prompt"
    /\ cli' = "leaving"
    /\ UNCHANGED <<flag_queue, lock, last_submission, stats, stats_file, pc, wake,
                   batch, results, idx, now, accepted, produced, trail, rate_limit,
                   reader>>

\* KeyboardInterrupt at the prompt: save_stats at line 422 opens the file
cli_interrupt ==
    /\ cli = "prompt"
    /\ SaveOpen("interrupted", "leaving")

cli_interrupt_dump ==
    /\ cli = "interrupted"
    /\ SaveDump("leaving")

\* line 429: the final save_stats opens the file
cli_final ==
    /\ cli = "leaving"
    /\ SaveOpen("final", "exited")

\* the final save_stats writes, start_cli returns and the process ends
cli_final_dump ==
    /\ cli = "final"
    /\ SaveDump("exited")

Cli ==
    \/ cli_exit
    \/ cli_interrupt
    \/ cli_interrupt_dump
    \/ cli_final
    \/ cli_final_dump

\* the threads run for as long as the process does
Running ==
    /\ cli # "exited"
    /\ Next

NextExit ==
    \/ Running
    \/ Cli

SpecExit == Init /\ [][NextExit]_vars

(***************************************************************************)
(* C1.  Two consecutive dispatch attempts are started at least the floor   *)
(* interval apart, and once submit_flags has returned, with results or     *)
(* with errors, last_submission is not before the start of that attempt.   *)
(***************************************************************************)
C1_RatePacing ==
    /\ Len(starts) = 2 => starts[2] - starts[1] >= MinInterval
    /\ (starts # <<>> /\ pc # "call") => last_submission >= starts[Len(starts)]

\* a second attempt is started exactly one interval after a failed first one
C1_Witness ==
    /\ pc = "call"
    /\ Len(starts) = 2
    /\ starts[2] - starts[1] = MinInterval
    /\ outcome = "failed"

(***************************************************************************)
(* C2.  The flags accepted so far are, in order, those already handed to   *)
(* submit_flags, then those of the batch being collected, then those of    *)
(* the queue; a batch never exceeds BatchLimit, a dispatched batch is not  *)
(* empty, and the collecting loop stops only at BatchLimit flags or at an  *)
(* empty queue.                                                            *)
(***************************************************************************)
C2_FifoDrain ==
    /\ [](/\ accepted = sent \o (IF pc = "drain" THEN batch ELSE <<>>) \o flag_queue
          /\ Len(batch) <= BatchLimit
          /\ pc = "call" => Len(batch) >= 1 /\ batch = LastN(sent, Len(batch)))
    /\ [][pc = "drain" /\ pc' # "drain"
            => Len(batch) = Min(BatchLimit, Len(batch) + Len(flag_queue))]_vars

\* a full batch is dispatched while the queue still holds a flag that a
\* producer put during the collecting loop
C2_Witness ==
    /\ pc = "call"
    /\ Len(batch) = BatchLimit
    /\ flag_queue # <<>>
    /\ produced > 0
    /\ Len(accepted) = BatchLimit + 1

(***************************************************************************)
(* What the properties speak of, stated without the operators of the code. *)
(***************************************************************************)
\* the flag grammar: 31 characters of A-Z and 0-9, then "=", and no more
IsFlag(s) ==
    /\ Len(s) = FlagBodyLen + 1
    /\ \A i \in 1..FlagBodyLen : s[i] \in UpperAlnum
    /\ s[FlagBodyLen + 1] = "="

\* the number two base-36 digits of a flag write, as a string
Id36(flag, i) == ToString(36 * DigitValue(flag[i]) + DigitValue(flag[i + 1]))

RoundOf(flag) == Id36(flag, 1)

TeamOf(flag) == Id36(flag, 3)

ServiceOf(flag) == Id36(flag, 5)

\* the for loop over results has run to its end
Reconciled ==
    \/ pc \in {"saved", "save_error"}
    \/ pc = "reconcile" /\ results.iterable /\ idx = Len(results.items)

\* the for loop over results is running or has run to its end
Reconciling == pc \in {"reconcile", "saved", "save_error"} /\ results.iterable

\* the results paired with a flag of the batch
Paired == 1..Min(Len(batch), Len(results.items))

IsOk(i) ==
    /\ results.items[i].isdict
    /\ "status" \in DOMAIN results.items[i].d
    /\ results.items[i].d.status = "OK"

Malformed == ~results.iterable \/ \E i \in 1..Len(results.items) : ~results.items[i].isdict

CounterKeys ==
    DOMAIN flags_by_team \cup DOMAIN flags_by_service
    \cup DOMAIN mark.by_team \cup DOMAIN mark.by_service

\* entry j of the history is the outcome of flag i of the batch with result i
Records(j, i) ==
    /\ j <= Len(submission_history)
    /\ submission_history[j].flag = SubSeq(batch[i], 1, 6) \o <<".", ".", ".">>
    /\ submission_history[j].round = RoundOf(batch[i])
    /\ submission_history[j].team = TeamOf(batch[i])
    /\ submission_history[j].service = ServiceOf(batch[i])
    /\ "status" \in DOMAIN results.items[i].d
          => submission_history[j].status = results.items[i].d.status
    /\ "msg" \in DOMAIN results.items[i].d
          => submission_history[j].message = results.items[i].d.msg

\* the counters are those at the start of the reconciliation, raised once
\* for every paired result with status OK, under its flag's team and service
CountersFollowOk ==
    \A k \in CounterKeys \cup {TeamOf(batch[i]) : i \in Paired}
                         \cup {ServiceOf(batch[i]) : i \in Paired} :
        /\ Get(flags_by_team, k) =
              Get(mark.by_team, k)
              + Cardinality({i \in Paired : IsOk(i) /\ TeamOf(batch[i]) = k})
        /\ Get(flags_by_service, k) =
              Get(mark.by_service, k)
              + Cardinality({i \in Paired : IsOk(i) /\ ServiceOf(batch[i]) = k})

(***************************************************************************)
(* C3.  A string that is not a flag is rejected by the intake with the     *)
(* reason "Invalid format", and is never queued nor dispatched: every flag *)
(* ever put in the queue is a flag of the grammar.                         *)
(***************************************************************************)
C3_IntakeRejection ==
    /\ \A s \in DOMAIN Validated :
          ~IsFlag(s) /\ ~Validated[s].valid => Validated[s].msg = "Invalid format"
    /\ \A i \in 1..Len(accepted) : IsFlag(accepted[i])

(***************************************************************************)
(* C4.  When the results are as many as the flags of the batch, the        *)
(* reconciliation appends one entry per flag, in order, with the flag's    *)
(* round, team and service and the result's status and message, and each   *)
(* result with status OK raises its flag's team and service counters by 1. *)
(***************************************************************************)
C4_AlignedReconciliation ==
    Reconciled /\ Len(results.items) = Len(batch) =>
        /\ Len(submission_history) = mark.len + Len(batch)
        /\ \A i \in 1..Len(batch) : Records(mark.len + i, i)
        /\ CountersFollowOk

\* two flags of different teams, both answered OK
C4_Witness ==
    /\ pc = "saved"
    /\ Len(batch) = 2
    /\ TeamOf(batch[1]) # TeamOf(batch[2])
    /\ results.items = <<OkEntry, OkEntry>>

(***************************************************************************)
(* C5.  When the results are fewer than the flags of the batch, the        *)
(* reconciliation appends one entry per result, for the first flags in     *)
(* order, raises counters for these alone, raises no error, and the flags  *)
(* left without a result do not return to the queue.                       *)
(***************************************************************************)
C5_ShortResults ==
    /\ Reconciled /\ Len(results.items) < Len(batch) =>
          /\ Len(submission_history) = mark.len + Len(results.items)
          /\ \A i \in 1..Len(results.items) : Records(mark.len + i, i)
          /\ CountersFollowOk
          /\ accepted = sent \o flag_queue
    /\ pc = "dead" /\ results.iterable /\ Len(results.items) < Len(batch) => Malformed

\* two flags sent, one result, with status OK
C5_Witness ==
    /\ pc = "saved"
    /\ Len(batch) = 2
    /\ results.items = <<OkEntry>>
    /\ flag_queue = <<>>

(***************************************************************************)
(* C6.  A result beyond the end of the batch is recorded with the flag     *)
(* "unknown" and unknown team, service and round, with the result's status *)
(* and message.                                                            *)
(***************************************************************************)
C6_LongResults ==
    Reconciling =>
        \A j \in (mark.len + Len(batch) + 1)..Len(submission_history) :
            /\ submission_history[j].flag = Unknown
            /\ submission_history[j].team = "?"
            /\ submission_history[j].service = "?"
            /\ submission_history[j].round = "?"

(***************************************************************************)
(* C7.  A counter changes only by the reconciliation of a result with      *)
(* status OK, and then it grows by 1; no counter decreases.                *)
(***************************************************************************)
C7_CounterDiscipline ==
    [][\A k \in DOMAIN flags_by_team \cup DOMAIN flags_by_team'
                \cup DOMAIN flags_by_service \cup DOMAIN flags_by_service' :
          /\ Get(flags_by_team', k) >= Get(flags_by_team, k)
          /\ Get(flags_by_service', k) >= Get(flags_by_service, k)
          /\ Get(flags_by_team', k) # Get(flags_by_team, k)
                => /\ pc = "reconcile" /\ idx' = idx + 1 /\ IsOk(idx + 1)
                   /\ Get(flags_by_team', k) = Get(flags_by_team, k) + 1
          /\ Get(flags_by_service', k) # Get(flags_by_service, k)
                => /\ pc = "reconcile" /\ idx' = idx + 1 /\ IsOk(idx + 1)
                   /\ Get(flags_by_service', k) = Get(flags_by_service, k) + 1]_vars

\* a result with status DUPLICATE and one with status OK have been
\* reconciled: only the second flag's counters stand at 1
C7_Witness ==
    /\ pc = "reconcile"
    /\ idx = 2
    /\ Len(batch) = 2
    /\ results.items = <<DupEntry, OkEntry>>
    /\ Get(flags_by_team, TeamOf(batch[1])) = 0
    /\ Get(flags_by_team, TeamOf(batch[2])) = 1

(***************************************************************************)
(* C9.  No outcome of a batch ends the submitter thread.                   *)
(***************************************************************************)
C9_WorkerNeverStops == pc # "dead"

(***************************************************************************)
(* C10.  When the outbound call fails, submit_flags returns one ERROR      *)
(* result per flag, in the batch's order and with a message; the           *)
(* reconciliation then appends one ERROR entry per flag, changes no        *)
(* counter and raises nothing.                                             *)
(***************************************************************************)
C10_TransportFailure ==
    outcome = "failed" =>
        /\ pc # "dead"
        /\ pc \in {"lock", "reconcile", "saved", "save_error"} =>
              /\ results.iterable
              /\ Len(results.items) = Len(batch)
              /\ \A i \in 1..Len(batch) :
                    /\ results.items[i].isdict
                    /\ DOMAIN results.items[i].d = {"flag", "status", "msg"}
                    /\ results.items[i].d.flag = batch[i]
                    /\ results.items[i].d.status = "ERROR"
        /\ Reconciled =>
              /\ Len(submission_history) = mark.len + Len(batch)
              /\ \A i \in 1..Len(batch) :
                    /\ Records(mark.len + i, i)
                    /\ submission_history[mark.len + i].status = "ERROR"
              /\ flags_by_team = mark.by_team
              /\ flags_by_service = mark.by_service

\* a batch of two flags whose call failed has been reconciled and saved
C10_Witness ==
    /\ outcome = "failed"
    /\ pc = "saved"
    /\ Len(batch) = 2
    /\ Len(submission_history) = mark.len + 2

(***************************************************************************)
(* C8.  When the process is started anew right after a snapshot was        *)
(* written, the counters loaded are those that were saved and the history  *)
(* loaded is the last min(1000, len) entries of the saved one, in order.   *)
(***************************************************************************)
C8_SnapshotRoundTrip ==
    [][pc = "saved" /\ Restart =>
          /\ flags_by_team' = flags_by_team
          /\ flags_by_service' = flags_by_service
          /\ Len(submission_history') = Min(HistoryKeep, Len(submission_history))
          /\ \A i \in 1..Len(submission_history') :
                submission_history'[i] =
                    submission_history[Len(submission_history)
                                       - Len(submission_history') + i]]_vars

\* a fresh instance holds the 1000 newest entries of a longer history: its
\* first entry is not the first one ever recorded
C8_Witness ==
    /\ pc = "pace"
    /\ sent = <<>>
    /\ stats_file.kind = "json"
    /\ Len(submission_history) = HistoryKeep
    /\ submission_history[1].round # "1"
    /\ Get(flags_by_team, TeamOfB) = 500

(***************************************************************************)
(* C11.  A summary read and the worker's reconciliation never overlap:     *)
(* while a read holds the lock the worker is outside its block, the        *)
(* history and the counters do not change, and every entry with status OK  *)
(* appended since the worker last took the lock has its counters raised.   *)
(***************************************************************************)
InBlock == pc \in {"reconcile", "saved", "save_error"}

\* the entries appended since the lock was last taken by the worker
Fresh == (mark.len + 1)..Len(submission_history)

OkVisible ==
    \A k \in CounterKeys \cup {submission_history[j].team : j \in Fresh}
                         \cup {submission_history[j].service : j \in Fresh} :
        /\ Get(flags_by_team, k) - Get(mark.by_team, k) =
              Cardinality({j \in Fresh : /\ submission_history[j].status = "OK"
                                         /\ submission_history[j].team = k})
        /\ Get(flags_by_service, k) - Get(mark.by_service, k) =
              Cardinality({j \in Fresh : /\ submission_history[j].status = "OK"
                                         /\ submission_history[j].service = k})

C11_ReadExclusion ==
    /\ [](/\ reader # "none" => lock = "reader" /\ ~InBlock /\ OkVisible
          /\ InBlock => lock = "worker" /\ reader = "none")
    /\ [][reader # "none" => UNCHANGED stats]_vars

\* a read holds the lock after a first batch was reconciled, and the worker
\* waits for the lock with the results of a second batch
C11_Witness ==
    /\ reader = "get_stats"
    /\ pc = "lock"
    /\ submission_history # <<>>
    /\ Len(results.items) > 0

(***************************************************************************)
(* C12.  While the worker sleeps or waits for the outbound call it does    *)
(* not hold the lock: a producer's enqueue and a summary read go through   *)
(* unless another reader holds the lock.                                   *)
(***************************************************************************)
C12_NoBlocking ==
    pc \in {"sleep", "call"} =>
        /\ lock # "worker"
        /\ reader = "none" =>
              /\ lock = "free"
              /\ ENABLED get_stats
              /\ produced < MaxAccepted => ENABLED http_add_flag(FlagA)

\* during the outbound call of a first batch a producer has enqueued a flag
\* and a read holds the lock
C12_Witness ==
    /\ pc = "call"
    /\ Len(sent) = 1
    /\ Len(accepted) = 2
    /\ reader = "home"

(***************************************************************************)
(* C13.  A start loads all of a well-formed snapshot (a key that is        *)
(* missing seeds an empty field) and nothing of any other file: the        *)
(* instance then starts with an empty history and empty counters.          *)
(***************************************************************************)
WellFormed(file) == file.kind = "json" /\ BadFields(file) = {}

FieldOf(file, key, default) ==
    IF key \in DOMAIN file.data THEN file.data[key] ELSE default

C13_LoadAllOrNothing ==
    [][Restart =>
          IF WellFormed(stats_file)
          THEN /\ submission_history' = FieldOf(stats_file, "history", <<>>)
               /\ flags_by_team' = FieldOf(stats_file, "by_team", EmptyCounter)
               /\ flags_by_service' = FieldOf(stats_file, "by_service", EmptyCounter)
          ELSE /\ submission_history' = <<>>
               /\ flags_by_team' = EmptyCounter
               /\ flags_by_service' = EmptyCounter]_vars

(***************************************************************************)
(* C14.  The worker leaves the loop over a batch's results only through    *)
(* save_stats, and goes back to pacing only from there; a save that        *)
(* succeeded has written the counters as they are and the last             *)
(* min(1000, len) entries of the history; a save that failed is swallowed; *)
(* neither changes the history or the counters in memory.                  *)
(***************************************************************************)
Persisted ==
    /\ stats_file.kind = "json"
    /\ DOMAIN stats_file.data = {"history", "by_team", "by_service"}
    /\ stats_file.data.by_team = flags_by_team
    /\ stats_file.data.by_service = flags_by_service
    /\ Len(stats_file.data.history) = Min(HistoryKeep, Len(submission_history))
    /\ \A i \in 1..Len(stats_file.data.history) :
          stats_file.data.history[i] =
              submission_history[Len(submission_history)
                                 - Len(stats_file.data.history) + i]

C14_PersistEveryBatch ==
    /\ [](pc = "saved" => Persisted /\ Len(submission_history) >= mark.len)
    /\ [][pc = "reconcile" /\ pc' \notin {"reconcile", "dead"}
            => pc' \in {"saved", "save_error"} /\ UNCHANGED stats]_vars
    /\ [][(pc = "saved" \/ pc = "save_error")
            => ((pc' = pc \/ pc' = "pace") /\ UNCHANGED <<stats, stats_file>>)]_vars
    /\ [][(pc' = "pace" /\ pc # "pace")
            => (pc = "saved" \/ pc = "save_error" \/ (pc = "drain" /\ batch = <<>>))]_vars

\* the entry of a second batch is the 1001st of the history, and the
\* snapshot written after it holds the last 1000
C14_Witness ==
    /\ pc = "saved"
    /\ mark.len = HistoryKeep
    /\ Len(submission_history) = HistoryKeep + 1
    /\ Len(stats_file.data.history) = HistoryKeep

(***************************************************************************)
(* C15.  Each accepted flag is in one place: already handed to             *)
(* submit_flags, in the batch being collected, or in the queue; it is      *)
(* handed over once; the queue grows only by a producer's enqueue, never   *)
(* by the worker, whatever the outcome of a call.                          *)
(***************************************************************************)
Collecting == IF pc = "drain" THEN batch ELSE <<>>

C15_AtMostOnce ==
    /\ [](/\ Len(accepted) = Len(sent) + Len(Collecting) + Len(flag_queue)
          /\ \A i \in 1..Len(sent) : sent[i] = accepted[i]
          /\ \A i \in 1..Len(Collecting) : Collecting[i] = accepted[Len(sent) + i]
          /\ \A i \in 1..Len(flag_queue) :
                flag_queue[i] = accepted[Len(sent) + Len(Collecting) + i])
    /\ [][/\ Len(flag_queue') > Len(flag_queue)
             => (produced' = produced + 1 /\ Len(flag_queue') = Len(flag_queue) + 1)
          /\ Len(sent') >= Len(sent)
          /\ \A i \in 1..Len(sent) : sent'[i] = sent[i]]_vars

\* a batch whose call failed has been reconciled and saved, and the worker
\* polls an empty queue: the failed flags are nowhere but in what was sent
C15_Witness ==
    /\ outcome = "failed"
    /\ pc = "drain"
    /\ flag_queue = <<>>
    /\ batch = <<>>
    /\ Len(sent) = 2
    /\ sent = accepted

(***************************************************************************)
(* C16.  The interval the worker keeps between two requests is             *)
(* 60 / rate_limit seconds: two consecutive attempts start at least that   *)
(* far apart, and a sleeping worker wakes that long after the last call    *)
(* returned.                                                               *)
(***************************************************************************)
IntervalOf(limit) == 60 \div limit

C16_IntervalFromBudget ==
    /\ Len(starts) = 2 => starts[2] - starts[1] >= IntervalOf(rate_limit)
    /\ pc = "sleep" => wake = last_submission + IntervalOf(rate_limit)

(***************************************************************************)
(* C17.  When the collecting loop ends with no flag, the worker makes no   *)
(* outbound call and goes back to pacing; last_submission, the history,    *)
(* the counters, the queue and the snapshot file stay as they are.         *)
(***************************************************************************)
C17_EmptyDrainNoOp ==
    [][(pc = "drain" /\ pc' # "drain" /\ batch = <<>>)
          => /\ pc' = "pace"
             /\ UNCHANGED <<last_submission, stats, flag_queue, stats_file>>
             /\ UNCHANGED <<results, lock, trail>>]_vars

\* after a batch was dispatched and saved, a poll of the empty queue has
\* sent the worker back to pacing
C17_Witness ==
    /\ pc = "pace"
    /\ batch = <<>>
    /\ sent # <<>>
    /\ flag_queue = <<>>
    /\ stats_file.kind = "json"
    /\ last_submission = starts[Len(starts)]

(***************************************************************************)
(* C18.  Every string of the flag grammar decodes, to the base-36 values   *)
(* of its first three pairs of characters ("01" is 1, "0A" is 10, "1A" is  *)
(* 46), and passes validate_flag; "Decoding failed" is never the verdict;  *)
(* and every string validate_flag lets into the queue is of the grammar.   *)
(***************************************************************************)
Alphabet36 ==
    <<"0", "1", "2", "3", "4", "5", "6", "7", "8", "9", "A", "B", "C", "D", "E",
      "F", "G", "H", "I", "J", "K", "L", "M", "N", "O", "P", "Q", "R", "S", "T",
      "U", "V", "W", "X", "Y", "Z">>

\* the number the characters i and i+1 of s write in base 36
Pair36(s, i) ==
    36 * ((CHOOSE n \in 1..36 : Alphabet36[n] = s[i]) - 1)
    + (CHOOSE n \in 1..36 : Alphabet36[n] = s[i + 1]) - 1

DecodesAs(s) ==
    /\ decode_flag(s).ok
    /\ decode_flag(s).round = Pair36(s, 1)
    /\ decode_flag(s).team = Pair36(s, 3)
    /\ decode_flag(s).service = Pair36(s, 5)

SampleChars == {"0", "1", "9", "A", "Z"}

\* the flags whose six leading characters are drawn from SampleChars
SampleFlags ==
    { MkFlag(<<a, b, c, d, e, f>>) :
          a \in SampleChars, b \in SampleChars, c \in SampleChars,
          d \in SampleChars, e \in SampleChars, f \in SampleChars }

DecodesAll ==
    /\ \A s \in SampleFlags :
          /\ IsFlag(s)
          /\ DecodesAs(s)
          /\ validate_flag(s) = [valid |-> TRUE, msg |-> "Valid"]
    /\ Pair36(FlagA, 1) = 1 /\ Pair36(FlagA, 3) = 10 /\ Pair36(FlagA, 5) = 46
    /\ Slice(FlagA, 0, 6) = <<"0", "1", "0", "A", "1", "A">>
    /\ \A s \in DOMAIN Validated :
          /\ Validated[s].msg # "Decoding failed"
          /\ IsFlag(s) => Validated[s].valid

C18_DecodingTotal ==
    /\ DecodesAll
    /\ \A i \in 1..Len(accepted) :
          /\ Validated[accepted[i]].valid
          /\ IsFlag(accepted[i])
          /\ DecodesAs(accepted[i])

(***************************************************************************)
(* C19.  Every flag put in the queue is eventually handed to submit_flags: *)
(* once k flags have been accepted, k flags are eventually sent.           *)
(***************************************************************************)
C19_EventualDispatch ==
    \A k \in 1..MaxAccepted : (Len(accepted) >= k) ~> (Len(sent) >= k)

(***************************************************************************)
(* C20.  From an empty start, whenever the lock is free the per-team       *)
(* counters add up to the number of history entries with status OK, and so *)
(* do the per-service counters.                                            *)
(***************************************************************************)
RECURSIVE SumOver(_, _)
SumOver(c, keys) ==
    IF keys = {} THEN 0
    ELSE LET k == CHOOSE x \in keys : TRUE
         IN  c[k] + SumOver(c, keys \ {k})

Total(c) == SumOver(c, DOMAIN c)

OkEntries == {j \in 1..Len(submission_history) : submission_history[j].status = "OK"}

C20_CountersMatchHistory ==
    lock = "free" =>
        /\ Total(flags_by_team) = Cardinality(OkEntries)
        /\ Total(flags_by_service) = Cardinality(OkEntries)

\* two flags were sent and three results reconciled, one of them beyond
\* the batch: three entries, all of them OK and all of them counted
C20_Witness ==
    /\ lock = "free"
    /\ pc = "pace"
    /\ Len(sent) = 2
    /\ Len(submission_history) = 3
    /\ Cardinality(OkEntries) = 3
    /\ Total(flags_by_team) = 3

(***************************************************************************)
(* C21.  Every snapshot written holds the history and the counters as      *)
(* they are between two reconciliations, never those of a batch whose      *)
(* results are partly reconciled; and the worker does not write the file   *)
(* while a save_stats of the CLI has it open.                              *)
(***************************************************************************)
\* some results of the batch are reconciled and some are still to be
Partial ==
    /\ pc = "reconcile"
    /\ results.iterable
    /\ 0 < idx
    /\ idx < Len(results.items)

CliWriting == cli = "interrupted" \/ cli = "final"

C21_WholeBatchSnapshots ==
    /\ [][(stats_file' # stats_file /\ stats_file'.kind = "json") => ~Partial]_vars
    /\ [][(pc = "reconcile" /\ (pc' = "saved" \/ pc' = "save_error")) => ~CliWriting]_vars

====
